---- MODULE Spec2Model ----
(***************************************************************************)
(* PIN/UV Auth Protocol One (libwebauthn/src/pin.rs) as a state machine.   *)
(*                                                                         *)
(* The state is one PinUvAuthProtocolOne engine (its key pair), one        *)
(* StaticPinProvider (its PIN), the last call made on them with its        *)
(* returned value, and the tracing events that call emitted.               *)
(*                                                                         *)
(* Byte strings are sequences over 0..255 and keep the lengths of the      *)
(* code: 32-byte AES-256 keys, 16-byte blocks, 32-byte coordinates and     *)
(* digests, 64-byte HMAC blocks.  The primitives of the crates the file    *)
(* calls (aes, sha2, p256) are reduced stand-ins with the same interface:  *)
(* a keyed permutation of 16-byte blocks, a 32-byte digest of a byte       *)
(* string of any length, a prime-order short Weierstrass curve over a      *)
(* small field.  The modes built on them (CBC with a zero IV, NoPadding,   *)
(* HMAC, ECDH, SEC1 coordinates) are modelled step by step.                *)
(***************************************************************************)
EXTENDS Integers, Sequences, FiniteSets, TLC

VARIABLES private_key, public_key, pin, call, result, log, first

vars == <<private_key, public_key, pin, call, result, log, first>>

(***************************************************************************)
(* Bounds of the explored inputs.                                          *)
(***************************************************************************)
\* Buffers (plaintexts, ciphertexts, messages) hold up to MaxBlocks whole
\* AES blocks, plus a partial one.
MaxBlocks == 2

(***************************************************************************)
(* Sizes fixed by the code.                                                *)
(***************************************************************************)
\* AES block length: `ciphertext.len() % 16`, `&[0; 16]`.
BlockSize == 16
\* Key length of cbc::Encryptor<aes::Aes256>.
KeySize == 32
\* Output length of Sha256.
DigestSize == 32
\* heapless::Vec<u8, 32>: the length of a P-256 coordinate.
CoordSize == 32
\* `&hmac[..16]`, `&hashed[..16]`.
TagSize == 16
\* Block length of HMAC-SHA-256.
HmacBlockSize == 64

(***************************************************************************)
(* Byte helpers.                                                           *)
(***************************************************************************)
\* Exclusive or of two 4-bit values, tabulated.
XorNibble ==
    <<<<0, 1, 2, 3, 4, 5, 6, 7, 8, 9, 10, 11, 12, 13, 14, 15>>,
     <<1, 0, 3, 2, 5, 4, 7, 6, 9, 8, 11, 10, 13, 12, 15, 14>>,
     <<2, 3, 0, 1, 6, 7, 4, 5, 10, 11, 8, 9, 14, 15, 12, 13>>,
     <<3, 2, 1, 0, 7, 6, 5, 4, 11, 10, 9, 8, 15, 14, 13, 12>>,
     <<4, 5, 6, 7, 0, 1, 2, 3, 12, 13, 14, 15, 8, 9, 10, 11>>,
     <<5, 4, 7, 6, 1, 0, 3, 2, 13, 12, 15, 14, 9, 8, 11, 10>>,
     <<6, 7, 4, 5, 2, 3, 0, 1, 14, 15, 12, 13, 10, 11, 8, 9>>,
     <<7, 6, 5, 4, 3, 2, 1, 0, 15, 14, 13, 12, 11, 10, 9, 8>>,
     <<8, 9, 10, 11, 12, 13, 14, 15, 0, 1, 2, 3, 4, 5, 6, 7>>,
     <<9, 8, 11, 10, 13, 12, 15, 14, 1, 0, 3, 2, 5, 4, 7, 6>>,
     <<10, 11, 8, 9, 14, 15, 12, 13, 2, 3, 0, 1, 6, 7, 4, 5>>,
     <<11, 10, 9, 8, 15, 14, 13, 12, 3, 2, 1, 0, 7, 6, 5, 4>>,
     <<12, 13, 14, 15, 8, 9, 10, 11, 4, 5, 6, 7, 0, 1, 2, 3>>,
     <<13, 12, 15, 14, 9, 8, 11, 10, 5, 4, 7, 6, 1, 0, 3, 2>>,
     <<14, 15, 12, 13, 10, 11, 8, 9, 6, 7, 4, 5, 2, 3, 0, 1>>,
     <<15, 14, 13, 12, 11, 10, 9, 8, 7, 6, 5, 4, 3, 2, 1, 0>>>>

\* Bitwise exclusive or of two bytes.
Xor(a, b) == 16 * XorNibble[(a \div 16) + 1][(b \div 16) + 1]
        + XorNibble[(a % 16) + 1][(b % 16) + 1]

Take(s, n) == SubSeq(s, 1, n)
Drop(s, n) == SubSeq(s, n + 1, Len(s))
Zeros(n) == [i \in 1..n |-> 0]

(***************************************************************************)
(* aes::Aes256, reduced: a permutation of 16-byte blocks keyed by 32       *)
(* bytes (key addition, byte substitution, byte rotation, key addition),   *)
(* with the inverse computed by undoing the steps in reverse order.        *)
(***************************************************************************)
SBox(v) == (5 * v + 99) % 256
InvSBox(v) == (205 * ((v + 157) % 256)) % 256

Aes256EncryptBlock(key, block) ==
    LET s1 == [i \in 1..BlockSize |-> SBox(Xor(block[i], key[i]))]
        s2 == [i \in 1..BlockSize |-> s1[(i % BlockSize) + 1]]
    IN  [i \in 1..BlockSize |-> Xor(s2[i], key[BlockSize + i])]

\* Faulty variant of Aes256DecryptBlock: the two key halves are swapped.
Aes256DecryptBlockSwappedKeys(key, block) ==
    LET t1 == [i \in 1..BlockSize |-> Xor(block[i], key[i])]
        t2 == [i \in 1..BlockSize |-> t1[((i + BlockSize - 2) % BlockSize) + 1]]
    IN  [i \in 1..BlockSize |-> Xor(InvSBox(t2[i]), key[BlockSize + i])]

Aes256DecryptBlock(key, block) ==
    LET t1 == [i \in 1..BlockSize |-> Xor(block[i], key[BlockSize + i])]
        t2 == [i \in 1..BlockSize |-> t1[((i + BlockSize - 2) % BlockSize) + 1]]
    IN  [i \in 1..BlockSize |-> Xor(InvSBox(t2[i]), key[i])]

XorBlock(a, b) == [i \in 1..BlockSize |-> Xor(a[i], b[i])]

(***************************************************************************)
(* cbc::Encryptor / cbc::Decryptor over whole blocks.                      *)
(***************************************************************************)
\* Faulty variant of CbcEncryptBlocks: every block is chained to the IV,
\* not to the ciphertext block before it.
RECURSIVE CbcEncryptBlocksEcb(_, _, _)
CbcEncryptBlocksEcb(key, prev, msg) ==
    IF Len(msg) = 0 THEN <<>>
    ELSE Aes256EncryptBlock(key, XorBlock(Take(msg, BlockSize), prev))
             \o CbcEncryptBlocksEcb(key, prev, Drop(msg, BlockSize))

RECURSIVE CbcEncryptBlocks(_, _, _)
CbcEncryptBlocks(key, prev, msg) ==
    IF Len(msg) = 0 THEN <<>>
    ELSE LET c == Aes256EncryptBlock(key, XorBlock(Take(msg, BlockSize), prev))
         IN  c \o CbcEncryptBlocks(key, c, Drop(msg, BlockSize))

RECURSIVE CbcDecryptBlocks(_, _, _)
CbcDecryptBlocks(key, prev, buf) ==
    IF Len(buf) = 0 THEN <<>>
    ELSE LET c == Take(buf, BlockSize)
         IN  XorBlock(Aes256DecryptBlock(key, c), prev)
                 \o CbcDecryptBlocks(key, c, Drop(buf, BlockSize))

\* Faulty variant of new_from_slices: a longer key is accepted and cut.
new_from_slices_at_least(key, iv) ==
    IF Len(key) >= KeySize /\ Len(iv) = BlockSize
    THEN [ok |-> TRUE, key |-> Take(key, KeySize), iv |-> iv]
    ELSE [ok |-> FALSE, key |-> <<>>, iv |-> <<>>]

\* KeyIvInit::new_from_slices: Err(InvalidLength) unless the key and the IV
\* have the cipher's sizes.
new_from_slices(key, iv) ==
    IF Len(key) = KeySize /\ Len(iv) = BlockSize
    THEN [ok |-> TRUE, key |-> key, iv |-> iv]
    ELSE [ok |-> FALSE, key |-> <<>>, iv |-> <<>>]

(***************************************************************************)
(* Returned values.  tag is Ok, Err or Panic; err names the error value    *)
(* (or the panic message); out is the returned byte string and pk the      *)
(* returned COSE key, empty when there is none.                            *)
(***************************************************************************)
NoKey == [variant |-> "None", x |-> <<>>, y |-> <<>>]
OkBytes(b) == [tag |-> "Ok", err |-> "", out |-> b, pk |-> NoKey]
OkPair(k, b) == [tag |-> "Ok", err |-> "", out |-> b, pk |-> k]
ErrOther == [tag |-> "Err", err |-> "Ctap(Other)", out |-> <<>>, pk |-> NoKey]
Panic(msg) == [tag |-> "Panic", err |-> msg, out |-> <<>>, pk |-> NoKey]
Idle == [tag |-> "Idle", err |-> "", out |-> <<>>, pk |-> NoKey]

\* A tracing event: its level, its message and the values of its fields.
Event(level, msg, fields) == [level |-> level, msg |-> msg, fields |-> fields]

\* BlockEncryptMut::encrypt_padded_vec_mut::<NoPadding>: a message with a
\* partial last block is a PadError, which the method unwraps with expect.
encrypt_padded_vec_mut(enc, msg) ==
    IF Len(msg) % BlockSize # 0
    THEN Panic("enough space for encrypting is allocated")
    ELSE OkBytes(CbcEncryptBlocks(enc.key, enc.iv, msg))

\* BlockDecryptMut::decrypt_padded_vec_mut::<NoPadding>: UnpadError on a
\* partial last block; NoPadding strips nothing.
decrypt_padded_vec_mut(dec, buf) ==
    IF Len(buf) % BlockSize # 0
    THEN [ok |-> FALSE, out |-> <<>>]
    ELSE [ok |-> TRUE, out |-> CbcDecryptBlocks(dec.key, dec.iv, buf)]

(***************************************************************************)
(* PinUvAuthProtocolOne::encrypt and ::decrypt: the returned value and     *)
(* the events emitted.                                                     *)
(***************************************************************************)
encrypt(key, plaintext) ==
    LET iv == Zeros(BlockSize)
        enc == new_from_slices(key, iv)
    IN  IF ~enc.ok
        THEN [res |-> ErrOther,
              log |-> <<Event("error", "Invalid key for AES-256 encryption", {key})>>]
        ELSE [res |-> encrypt_padded_vec_mut(enc, plaintext), log |-> <<>>]

\* Faulty variant of decrypt: the key is examined first and the length of
\* the ciphertext is left to the unpadding check.
decrypt_key_first(key, ciphertext) ==
    LET iv == Zeros(BlockSize)
        dec == new_from_slices(key, iv)
    IN  IF ~dec.ok
        THEN [res |-> ErrOther,
              log |-> <<Event("error", "Invalid key for AES-256 decryption", {key})>>]
        ELSE LET plaintext == decrypt_padded_vec_mut(dec, ciphertext)
             IN  IF ~plaintext.ok
                 THEN [res |-> ErrOther,
                       log |-> <<Event("error", "Unpad error while decrypting", {})>>]
                 ELSE [res |-> OkBytes(plaintext.out), log |-> <<>>]

decrypt(key, ciphertext) ==
    IF Len(ciphertext) % 16 # 0
    THEN [res |-> ErrOther,
          log |-> <<Event("error",
                          "Ciphertext length is not a multiple of AES block length",
                          {ciphertext})>>]
    ELSE LET iv == Zeros(BlockSize)
             dec == new_from_slices(key, iv)
         IN  IF ~dec.ok
             THEN [res |-> ErrOther,
                   log |-> <<Event("error", "Invalid key for AES-256 decryption", {key})>>]
             ELSE LET plaintext == decrypt_padded_vec_mut(dec, ciphertext)
                  IN  IF ~plaintext.ok
                      THEN [res |-> ErrOther,
                            log |-> <<Event("error", "Unpad error while decrypting", {})>>]
                      ELSE [res |-> OkBytes(plaintext.out), log |-> <<>>]

(***************************************************************************)
(* sha2::Sha256, reduced: a 32-byte digest of a byte string of any length. *)
(***************************************************************************)
\* The digest state of bytes[lo..hi]: a byte plus one for a single byte,
\* and for a longer range a mix of the states of its two halves, modulo a
\* prime.
RECURSIVE Absorb(_, _, _)
Absorb(bytes, lo, hi) ==
    IF lo > hi THEN 0
    ELSE IF lo = hi THEN bytes[lo] + 1
    ELSE (Absorb(bytes, lo, (lo + hi) \div 2) * 33
             + Absorb(bytes, ((lo + hi) \div 2) + 1, hi) * 17 + 7) % 32749

\* The 32 digest bytes drawn from the final state.
Squeeze(h) ==
    [i \in 1..DigestSize |-> ((h % 256) * i + (h \div 256) + i * i) % 256]

Digest(bytes) ==
    CHOOSE d \in {Squeeze(h) \o <<>> :
                    h \in {(5381 * (Len(bytes) + 1) + Absorb(bytes, 1, Len(bytes))) % 32749}} :
        TRUE

\* The input is evaluated once, then digested.
Sha256(bytes) == CHOOSE d \in {Digest(b) \o <<>> : b \in {bytes \o <<>>}} : TRUE

\* hmac::Hmac<Sha256>: a key longer than the block is hashed, then the key
\* is zero-padded to the block; H((K ^ opad) || H((K ^ ipad) || message)).
HmacKeyBlock(key) ==
    LET k == IF Len(key) > HmacBlockSize THEN Sha256(key) ELSE key
    IN  k \o Zeros(HmacBlockSize - Len(k))

HmacPads(kb, message) ==
    LET ipad == [i \in 1..HmacBlockSize |-> Xor(kb[i], 54)]
        opad == [i \in 1..HmacBlockSize |-> Xor(kb[i], 92)]
    IN  Sha256(opad \o Sha256(ipad \o message))

HmacSha256(key, message) ==
    CHOOSE d \in {HmacPads(kb, message) : kb \in {HmacKeyBlock(key)}} : TRUE

\* hmac_sha256: new_from_slice accepts a key of any length, so the expect
\* never fires.
hmac_sha256(key, message) == HmacSha256(key, message)

\* Faulty variant of authenticate: the last 16 bytes instead of the first.
authenticate_tail(key, message) ==
    LET hmac == hmac_sha256(key, message)
    IN  SubSeq(hmac, Len(hmac) - TagSize + 1, Len(hmac))

\* PinUvAuthProtocolOne::authenticate
authenticate(key, message) ==
    LET hmac == hmac_sha256(key, message)
    IN  Take(hmac, 16)

\* pin_hash
pin_hash(pin_bytes) ==
    LET hashed == Sha256(pin_bytes)
    IN  Take(hashed, 16)

(***************************************************************************)
(* p256, reduced: the curve y^2 = x^3 + a*x + b over the prime field F_p,  *)
(* with base point (gx, gy) of prime order n and cofactor 1, as for P-256. *)
(***************************************************************************)
Curve == [p |-> 17, a |-> 2, b |-> 2, gx |-> 5, gy |-> 1, n |-> 19]

Infinity == [inf |-> TRUE, x |-> 0, y |-> 0]
Affine(x, y) == [inf |-> FALSE, x |-> x, y |-> y]
Generator == Affine(Curve.gx, Curve.gy)

\* The inverse of a non-zero element of the field.
ModInv(v) == CHOOSE w \in 1..(Curve.p - 1) : (v * w) % Curve.p = 1
ModSub(u, v) == (u + Curve.p - (v % Curve.p)) % Curve.p

OnCurve(x, y) == (y * y) % Curve.p = (x * x * x + Curve.a * x + Curve.b) % Curve.p

PointAdd(P, Q) ==
    IF P.inf THEN Q
    ELSE IF Q.inf THEN P
    ELSE IF P.x = Q.x /\ (P.y + Q.y) % Curve.p = 0 THEN Infinity
    ELSE LET l == IF P.x = Q.x
                  THEN ((3 * P.x * P.x + Curve.a) * ModInv(2 * P.y)) % Curve.p
                  ELSE (ModSub(Q.y, P.y) * ModInv(ModSub(Q.x, P.x))) % Curve.p
             x3 == ModSub(ModSub(l * l, P.x), Q.x)
             y3 == ModSub(l * ModSub(P.x, x3), P.y)
         IN  Affine(x3, y3)

RECURSIVE ScalarMul(_, _)
ScalarMul(k, P) == IF k = 0 THEN Infinity ELSE PointAdd(P, ScalarMul(k - 1, P))

\* A field element as CoordSize big-endian bytes, and back: -1 when the
\* bytes are not the canonical encoding of an element of the field.
FieldBytes(v) == Zeros(CoordSize - 1) \o <<v>>
DecodeField(bytes) ==
    IF (\A i \in 1..(CoordSize - 1) : bytes[i] = 0) /\ bytes[CoordSize] < Curve.p
    THEN bytes[CoordSize]
    ELSE -1

\* Faulty variant of from_encoded_point: the coordinates are reduced into
\* the field instead of being rejected when they are not canonical.
from_encoded_point_reducing(xb, yb) ==
    LET x == xb[CoordSize] % Curve.p
        y == yb[CoordSize] % Curve.p
    IN  IF OnCurve(x, y)
        THEN [some |-> TRUE, point |-> Affine(x, y)]
        ELSE [some |-> FALSE, point |-> Infinity]

\* PublicKey::from_encoded_point on an uncompressed point: Some(point) when
\* both coordinates are field elements satisfying the curve equation.
from_encoded_point(xb, yb) ==
    LET x == DecodeField(xb)
        y == DecodeField(yb)
    IN  IF x >= 0 /\ y >= 0 /\ OnCurve(x, y)
        THEN [some |-> TRUE, point |-> Affine(x, y)]
        ELSE [some |-> FALSE, point |-> Infinity]

\* EphemeralSecret::public_key and ::diffie_hellman (the raw x-coordinate of
\* the shared point).
public_key_of(secret) == ScalarMul(secret, Generator)
diffie_hellman(secret, peer_point) == FieldBytes(ScalarMul(secret, peer_point).x)

(***************************************************************************)
(* COSE keys (cosey::PublicKey): the variant and the coordinate bytes.     *)
(***************************************************************************)
CoseKey(variant, x, y) == [variant |-> variant, x |-> x, y |-> y]

\* Faulty variant of kdf: half of the digest.
kdf_truncated(bytes) == Take(Sha256(bytes), TagSize)

\* PinUvAuthProtocolOne::kdf
kdf(bytes) == Sha256(bytes)

\* PinUvAuthProtocolOne::get_public_key
get_public_key(pub) ==
    CoseKey("P256Key", FieldBytes(pub.x), FieldBytes(pub.y))

\* PinUvAuthProtocolOne::ecdh.  `.as_bytes().into()` makes a 32-byte array
\* reference of each coordinate and panics on a slice of another length.
ecdh(secret, peer_public_key) ==
    IF peer_public_key.variant # "EcdhEsHkdf256Key"
    THEN [res |-> ErrOther,
          log |-> <<Event("error",
                   "Unsupported peerCoseKey format. Only EcdhEsHkdf256Key is supported.",
                   {peer_public_key.x, peer_public_key.y})>>]
    ELSE IF Len(peer_public_key.x) # CoordSize \/ Len(peer_public_key.y) # CoordSize
    THEN [res |-> Panic("slice length does not match the array length"), log |-> <<>>]
    ELSE LET parsed == from_encoded_point(peer_public_key.x, peer_public_key.y)
         IN  IF ~parsed.some
             THEN [res |-> ErrOther,
                   log |-> <<Event("error", "Failed to parse public key.", {})>>]
             ELSE [res |-> OkBytes(kdf(diffie_hellman(secret, parsed.point))),
                   log |-> <<>>]

\* PinUvAuthProtocolOne::encapsulate: `?` returns ecdh's error; otherwise
\* (getPublicKey(), sharedSecret).
encapsulate(secret, pub, peer_public_key) ==
    LET shared_secret == ecdh(secret, peer_public_key)
    IN  IF shared_secret.res.tag # "Ok"
        THEN shared_secret
        ELSE [res |-> OkPair(get_public_key(pub), shared_secret.res.out),
              log |-> shared_secret.log]

(***************************************************************************)
(* The inputs explored.                                                    *)
(***************************************************************************)
\* n bytes: s, 2s, 3s, ... modulo 256 (all zero for s = 0).
Pattern(n, s) == [i \in 1..n |-> (s * i) % 256]

\* Symmetric keys: two of the AES-256 length (one all zero), and one of each
\* of the lengths 0, 16, 31, 33 and 65 (above the HMAC block length).
Keys ==
    {Pattern(KeySize, 0), Pattern(KeySize, 101)}
        \cup {Pattern(n, 59) : n \in {0, 16, 31, 33, 65}}

\* Buffer lengths: around every block boundary up to MaxBlocks blocks.
BufLens ==
    {n \in {BlockSize * b + d : b \in 0..MaxBlocks, d \in {0, 1, BlockSize - 1}} :
        n <= BlockSize * MaxBlocks + 1}

Buffers == {Pattern(n, s) : n \in BufLens, s \in {0, 37}}

\* Private scalars EphemeralSecret::random may draw: non-zero, below n.
SecretScalars == {3, 18}

\* The peer's scalars, for the peer keys that hold a point of the curve.
PeerScalars == {7, 18}

PeerPoint(d) == ScalarMul(d, Generator)
ValidPeer(d) ==
    CoseKey("EcdhEsHkdf256Key", FieldBytes(PeerPoint(d).x), FieldBytes(PeerPoint(d).y))

ValidPeers == {ValidPeer(d) : d \in PeerScalars}

\* EcdhEsHkdf256Key with two 32-byte coordinates that are no point of the
\* curve: x = y = 0, a wrong y, an x outside the field, all bytes 0xff.
OffCurvePeers ==
    {CoseKey("EcdhEsHkdf256Key", Zeros(CoordSize), Zeros(CoordSize)),
     CoseKey("EcdhEsHkdf256Key", FieldBytes(Curve.gx), FieldBytes(Curve.gy + 1)),
     CoseKey("EcdhEsHkdf256Key", FieldBytes(Curve.gx + Curve.p), FieldBytes(Curve.gy)),
     CoseKey("EcdhEsHkdf256Key", Pattern(CoordSize, 255), Pattern(CoordSize, 255))}

\* EcdhEsHkdf256Key with a coordinate shorter than 32 bytes.
ShortPeers ==
    {CoseKey("EcdhEsHkdf256Key", <<>>, <<>>),
     CoseKey("EcdhEsHkdf256Key", Zeros(CoordSize - 1), FieldBytes(Curve.gy)),
     CoseKey("EcdhEsHkdf256Key", FieldBytes(Curve.gx), <<Curve.gy>>)}

\* The other variants of cosey::PublicKey.
OtherVariantPeers ==
    {CoseKey("P256Key", FieldBytes(Curve.gx), FieldBytes(Curve.gy)),
     CoseKey("Ed25519Key", Pattern(CoordSize, 7), <<>>),
     CoseKey("TotpKey", <<>>, <<>>)}

PeerKeys == ValidPeers \cup OffCurvePeers \cup ShortPeers \cup OtherVariantPeers

\* The PIN (UTF-8 bytes of "1234") and attempts_left
\* (<<>> is None, <<n>> is Some(n)).
Pins == {<<49, 50, 51, 52>>}
Attempts == {<<>>, <<0>>, <<8>>}

(***************************************************************************)
(* State.                                                                  *)
(***************************************************************************)
\* The last call: the operation, its arguments, and for a call made on the
\* bytes the call before it returned, that call's key and buffer.
Call(op, key, data, peer) ==
    [op |-> op, key |-> key, data |-> data, peer |-> peer,
     chained |-> FALSE, prev_key |-> <<>>, prev_data |-> <<>>]
ChainedCall(op, key, data, prev) ==
    [op |-> op, key |-> key, data |-> data, peer |-> NoKey,
     chained |-> TRUE, prev_key |-> prev.key, prev_data |-> prev.data]

NoCall == Call("none", <<>>, <<>>, NoKey)

\* The first successful encapsulation of the engine, and whether a later
\* successful one was made with the same peer key.
NoEncap ==
    [set |-> FALSE, peer |-> NoKey, pk |-> NoKey, secret |-> <<>>, repeated |-> FALSE]

Remember(seen, peer, res) ==
    IF res.tag # "Ok" THEN seen
    ELSE IF ~seen.set
    THEN [set |-> TRUE, peer |-> peer, pk |-> res.pk, secret |-> res.out,
          repeated |-> FALSE]
    ELSE IF peer = seen.peer THEN [seen EXCEPT !.repeated = TRUE]
    ELSE seen

\* A panic unwinds the calling thread: it makes no further call.
Running == result.tag # "Panic"

\* PinUvAuthProtocolOne::new and StaticPinProvider::new
Init ==
    /\ private_key \in SecretScalars
    /\ public_key = public_key_of(private_key)
    /\ pin \in Pins
    /\ call = NoCall
    /\ result = Idle
    /\ log = <<>>
    /\ first = NoEncap

\* Faulty variant of Encapsulate: a successful call replaces the key pair.
EncapsulateRekey ==
    /\ Running
    /\ \E peer \in PeerKeys :
        \E r \in {encapsulate(private_key, public_key, peer)} :
            /\ call' = Call("encapsulate", <<>>, <<>>, peer)
            /\ result' = r.res
            /\ log' = r.log
            /\ first' = Remember(first, peer, r.res)
            /\ private_key' = IF r.res.tag = "Ok"
                              THEN (private_key % (Curve.n - 1)) + 1
                              ELSE private_key
            /\ public_key' = public_key_of(private_key')
    /\ UNCHANGED pin

\* encapsulate(&self, peer_public_key)
Encapsulate ==
    /\ Running
    /\ \E peer \in PeerKeys :
        \E r \in {encapsulate(private_key, public_key, peer)} :
            /\ call' = Call("encapsulate", <<>>, <<>>, peer)
            /\ result' = r.res
            /\ log' = r.log
            /\ first' = Remember(first, peer, r.res)
    /\ UNCHANGED <<private_key, public_key, pin>>

\* The calls of encrypt, decrypt and authenticate on the sample inputs, with
\* what each returns and logs.
EncryptRuns ==
    {[key |-> k, data |-> p, ret |-> encrypt(k, p)] : k \in Keys, p \in Buffers}
DecryptRuns ==
    {[key |-> k, data |-> c, ret |-> decrypt(k, c)] : k \in Keys, c \in Buffers}
AuthenticateRuns ==
    {[key |-> k, data |-> m, out |-> authenticate(k, m)] : k \in Keys, m \in Buffers}

\* encrypt(&self, key, plaintext) on sample inputs
Encrypt ==
    /\ Running
    /\ \E run \in EncryptRuns :
        /\ call' = Call("encrypt", run.key, run.data, NoKey)
        /\ result' = run.ret.res
        /\ log' = run.ret.log
    /\ UNCHANGED <<private_key, public_key, pin, first>>

\* decrypt(&self, key, ciphertext) on sample inputs
Decrypt ==
    /\ Running
    /\ \E run \in DecryptRuns :
        /\ call' = Call("decrypt", run.key, run.data, NoKey)
        /\ result' = run.ret.res
        /\ log' = run.ret.log
    /\ UNCHANGED <<private_key, public_key, pin, first>>

\* decrypt(&self, key, ciphertext) on the ciphertext the preceding encrypt
\* returned
DecryptReturned ==
    /\ Running
    /\ call.op = "encrypt" /\ ~call.chained /\ result.tag = "Ok"
    /\ \E key \in Keys :
        \E r \in {decrypt(key, result.out)} :
            /\ call' = ChainedCall("decrypt", key, result.out, call)
            /\ result' = r.res
            /\ log' = r.log
    /\ UNCHANGED <<private_key, public_key, pin, first>>

\* encrypt(&self, key, plaintext) on the plaintext the preceding decrypt
\* returned
EncryptReturned ==
    /\ Running
    /\ call.op = "decrypt" /\ ~call.chained /\ result.tag = "Ok"
    /\ \E key \in Keys :
        \E r \in {encrypt(key, result.out)} :
            /\ call' = ChainedCall("encrypt", key, result.out, call)
            /\ result' = r.res
            /\ log' = r.log
    /\ UNCHANGED <<private_key, public_key, pin, first>>

\* authenticate(&self, key, message)
Authenticate ==
    /\ Running
    /\ \E run \in AuthenticateRuns :
        /\ call' = Call("authenticate", run.key, run.data, NoKey)
        /\ result' = OkBytes(run.out)
        /\ log' = <<>>
    /\ UNCHANGED <<private_key, public_key, pin, first>>

\* pin_hash(pin)
PinHash ==
    /\ Running
    /\ \E p \in Pins \cup {<<>>} :
        /\ call' = Call("pin_hash", <<>>, p, NoKey)
        /\ result' = OkBytes(pin_hash(p))
        /\ log' = <<>>
    /\ UNCHANGED <<private_key, public_key, pin, first>>

\* StaticPinProvider::provide_pin(&self, attempts_left)
ProvidePin ==
    /\ Running
    /\ \E attempts_left \in Attempts :
        /\ call' = Call("provide_pin", <<>>, attempts_left, NoKey)
        /\ result' = OkBytes(pin)
        /\ log' = <<Event("info", "Providing static PIN", {pin, attempts_left})>>
    /\ UNCHANGED <<private_key, public_key, pin, first>>

Next ==
    \/ Encapsulate
    \/ Encrypt
    \/ Decrypt
    \/ DecryptReturned
    \/ EncryptReturned
    \/ Authenticate
    \/ PinHash
    \/ ProvidePin

Spec == Init /\ [][Next]_vars

(***************************************************************************)
(* Properties.                                                             *)
(***************************************************************************)
Aligned(b) == Len(b) % BlockSize = 0
ValidKey(k) == Len(k) = KeySize
IsEcdh(k) == k.variant = "EcdhEsHkdf256Key"

\* The peer keys that hold a point of the curve: the group has prime order
\* and cofactor 1, so its points other than the identity are the multiples
\* d*G, 0 < d < n.
HoldsPoint(k) == \E d \in 1..(Curve.n - 1) : k = ValidPeer(d)

LoggedMessages == {log[i].msg : i \in 1..Len(log)}

\* C1: with a 32-byte key and a plaintext of a whole number of blocks
\* (the empty one included), encrypt returns Ok(c), and decrypt of c under
\* the same key returns Ok of that plaintext.
C1_RoundTrip ==
    /\ (call.op = "encrypt" /\ ValidKey(call.key) /\ Aligned(call.data))
           => (result.tag = "Ok"
                 /\ decrypt(call.key, result.out).res = OkBytes(call.data))
    /\ (call.op = "decrypt" /\ call.chained /\ call.key = call.prev_key
           /\ ValidKey(call.prev_key) /\ Aligned(call.prev_data))
           => result = OkBytes(call.prev_data)

\* A two-block plaintext was encrypted, and the decryption of the returned
\* ciphertext (which differs from it) under the same key gave it back.
C1_Witness ==
    /\ call.op = "decrypt" /\ call.chained /\ call.key = call.prev_key
    /\ Len(call.prev_data) > BlockSize
    /\ call.data # call.prev_data
    /\ result = OkBytes(call.prev_data)

\* C2: decrypt of a ciphertext whose length is no multiple of 16 returns an
\* error and no plaintext whatever the key, and the length is checked
\* before the key: the only event is the one of the length check.
C2_MisalignedRejected ==
    (call.op = "decrypt" /\ ~Aligned(call.data))
        => /\ result.tag = "Err"
           /\ result.out = <<>>
           /\ LoggedMessages = {"Ciphertext length is not a multiple of AES block length"}

\* A 17-byte ciphertext was rejected under a key of an invalid length.
C2_Witness ==
    /\ call.op = "decrypt"
    /\ Len(call.data) = BlockSize + 1
    /\ ~ValidKey(call.key)
    /\ result.tag = "Err"

\* C3: no call of encapsulate, encrypt, decrypt or authenticate panics,
\* whatever the lengths of the key, of the buffer and of the peer's
\* coordinates.
C3_NoPanic == result.tag # "Panic"

\* C4 as stated: a peer key of another variant fails with an error kind
\* that differs from the one an off-curve EcdhEsHkdf256Key fails with.
C4_DistinctErrorKinds ==
    (call.op = "encapsulate" /\ ~IsEcdh(call.peer))
        => /\ result.tag = "Err"
           /\ \A k \in OffCurvePeers :
                encapsulate(private_key, public_key, k).res.err # result.err

\* C4, amended: encapsulate returns the one error Ctap(Other), with no
\* public key and no shared secret, both for a peer key of another variant
\* and for an EcdhEsHkdf256Key whose two 32-byte coordinates are no point
\* of the curve; only the logged message tells the two apart.
C4_SameErrorKind ==
    call.op = "encapsulate" =>
        /\ ~IsEcdh(call.peer)
              => /\ result = ErrOther
                 /\ LoggedMessages =
                      {"Unsupported peerCoseKey format. Only EcdhEsHkdf256Key is supported."}
        /\ (IsEcdh(call.peer) /\ Len(call.peer.x) = CoordSize
              /\ Len(call.peer.y) = CoordSize /\ ~HoldsPoint(call.peer))
              => /\ result = ErrOther
                 /\ LoggedMessages = {"Failed to parse public key."}

\* An EcdhEsHkdf256Key with x = y = 0 was rejected.
C4_Witness ==
    /\ call.op = "encapsulate"
    /\ call.peer = CoseKey("EcdhEsHkdf256Key", Zeros(CoordSize), Zeros(CoordSize))
    /\ result = ErrOther

\* C5: for a peer EcdhEsHkdf256Key holding a point d*G of the curve,
\* encapsulate returns Ok((pk, secret)): secret is 32 bytes, the digest of
\* the x-coordinate of the shared point (the peer's point times the private
\* scalar, which is the engine's public point times d), and pk is the
\* P256Key of the engine's public point with two 32-byte coordinates.
C5_Encapsulation ==
    call.op = "encapsulate" =>
        \A d \in 1..(Curve.n - 1) :
            call.peer = ValidPeer(d) =>
                /\ result.tag = "Ok"
                /\ Len(result.out) = DigestSize
                /\ result.out = Sha256(FieldBytes(ScalarMul(private_key, PeerPoint(d)).x))
                /\ result.out = Sha256(FieldBytes(ScalarMul(d, public_key).x))
                /\ result.pk.variant = "P256Key"
                /\ Len(result.pk.x) = CoordSize
                /\ Len(result.pk.y) = CoordSize
                /\ from_encoded_point(result.pk.x, result.pk.y)
                     = [some |-> TRUE, point |-> ScalarMul(private_key, Generator)]

\* An encapsulation against the peer point 7*G succeeded.
C5_Witness ==
    /\ call.op = "encapsulate"
    /\ call.peer = ValidPeer(7)
    /\ result.tag = "Ok"
    /\ Len(result.out) = DigestSize

\* C6: no call changes the engine's key pair; every successful encapsulate
\* returns the public key the first one returned, and the shared secret the
\* first one returned when the peer key is the same.
C6_KeyPairUnchanged ==
    /\ [][private_key' = private_key /\ public_key' = public_key]_vars
    /\ []((call.op = "encapsulate" /\ result.tag = "Ok")
            => /\ first.set
               /\ result.pk = first.pk
               /\ (call.peer = first.peer => result.out = first.secret))

\* After a first successful encapsulate, a later one with the same peer key
\* succeeded, and the last call succeeded with another peer key.
C6_Witness ==
    /\ first.set /\ first.repeated
    /\ call.op = "encapsulate" /\ result.tag = "Ok"
    /\ call.peer # first.peer
    /\ result.pk = first.pk
    /\ result.out # first.secret

\* C7: no event logged by a failing encapsulate, encrypt or decrypt holds
\* the symmetric key the caller passed, the private scalar or the PIN.
C7_NoSecretInFailureLog ==
    (call.op \in {"encapsulate", "encrypt", "decrypt"} /\ result.tag = "Err")
        => \A i \in 1..Len(log) :
              /\ call.op \in {"encrypt", "decrypt"} => call.key \notin log[i].fields
              /\ FieldBytes(private_key) \notin log[i].fields
              /\ pin \notin log[i].fields

\* C8: encrypt with a 32-byte key and a plaintext of a whole number of
\* blocks returns a ciphertext of the plaintext's length; with a key of
\* any other length it returns an error and no ciphertext, whatever the
\* plaintext.
C8_EncryptLengths ==
    call.op = "encrypt" =>
        /\ (ValidKey(call.key) /\ Aligned(call.data))
              => (result.tag = "Ok" /\ Len(result.out) = Len(call.data))
        /\ ~ValidKey(call.key) => result = ErrOther

\* A key longer than 32 bytes was refused with a plaintext that is not
\* block-aligned.
C8_Witness ==
    /\ call.op = "encrypt"
    /\ Len(call.key) > KeySize
    /\ ~Aligned(call.data)
    /\ result = ErrOther

\* C9: authenticate returns, for a key of any length and any message,
\* exactly the first 16 bytes of hmac_sha256(key, message).
C9_TruncatedMac ==
    call.op = "authenticate" =>
        /\ result.tag = "Ok"
        /\ Len(result.out) = TagSize
        /\ \A i \in 1..TagSize : result.out[i] = hmac_sha256(call.key, call.data)[i]
        /\ Len(hmac_sha256(call.key, call.data)) = DigestSize

\* A non-empty message was authenticated under the empty key.
C9_Witness ==
    /\ call.op = "authenticate"
    /\ call.key = <<>>
    /\ Len(call.data) > BlockSize
    /\ Len(result.out) = TagSize

\* C10: with a 32-byte key and a ciphertext of a whole number of blocks
\* (the empty one included), decrypt returns Ok(p) with p of the
\* ciphertext's length, encrypt of p under the same key returns that
\* ciphertext, and the unpadding error is never logged.
C10_DecryptTotal ==
    /\ (call.op = "decrypt" /\ ValidKey(call.key) /\ Aligned(call.data))
           => /\ result.tag = "Ok"
              /\ Len(result.out) = Len(call.data)
              /\ encrypt(call.key, result.out).res = OkBytes(call.data)
    /\ (call.op = "encrypt" /\ call.chained /\ call.key = call.prev_key
           /\ ValidKey(call.prev_key) /\ Aligned(call.prev_data))
           => result = OkBytes(call.prev_data)
    /\ "Unpad error while decrypting" \notin LoggedMessages

\* A two-block ciphertext was decrypted, and the encryption of the returned
\* plaintext (which differs from it) under the same key gave it back.
C10_Witness ==
    /\ call.op = "encrypt" /\ call.chained /\ call.key = call.prev_key
    /\ Len(call.prev_data) > BlockSize
    /\ call.data # call.prev_data
    /\ result = OkBytes(call.prev_data)

====
